---- MODULE Spec2Model ----
(***************************************************************************)
(* A model of the wallhaven client library:                                *)
(*   - Wallhaven.get_wallpapers_from_collection (src/wallhaven/main.py),   *)
(*     the paginated collection fetcher;                                   *)
(*   - Parameters (src/wallhaven/params.py) and make_query                 *)
(*     (src/wallhaven/utils/params.py), the search-query builder.          *)
(*   - Parameters' scalar setters and Wallhaven.search, which reads the    *)
(*     object's mapping.                                                   *)
(*   - Options (src/wallhaven/options.py), the earlier parameter holder.   *)
(* Strings are sequences of one-character strings, so that slicing,        *)
(* splitting and concatenation are computed as the Python code does.       *)
(***************************************************************************)
EXTENDS Integers, Sequences, FiniteSets, TLC

VARIABLES
    \* ---- the remote collection and the call's argument
    coll,        \* the remote collection: coll[p] = number of items on page p
    limit,       \* the `limit` argument
    \* ---- get_wallpapers_from_collection's locals
    pc,          \* "start", "loop", "returned", "raised"
    page,        \* the local `page`
    lastPage,    \* meta["last_page"] of the first response
    wallpapers,  \* the local list `wallpapers`
    result,      \* the value returned
    error,       \* the exception raised, "none" if none
    fetched,     \* the requests issued so far: <<[page, status], ...>>
    \* ---- a Parameters object
    params,      \* self.params (of the Options object in OptionsSpec)
    filters,     \* self.filters (the values of its keys)
    fkeys,       \* the keys self.filters holds
    lastOp,      \* the last Parameters method called
    lastArg,     \* its argument
    lastErr      \* the exception that call raised, "none" if it returned

fetchVars == <<coll, limit, pc, page, lastPage, wallpapers, result, error, fetched>>
paramVars == <<params, filters, fkeys, lastOp, lastArg, lastErr>>
vars == <<coll, limit, pc, page, lastPage, wallpapers, result, error, fetched,
          params, filters, fkeys, lastOp, lastArg, lastErr>>

\* ------------------------------------------------------------------ bounds
MaxPages == 3      \* pages of the remote collection
PerPage == 2       \* items on one page, at most
MaxLimit == 4      \* the `limit` argument, at most
MaxRequests == 5   \* page numbers requested, at most (caps the loop's counter)

\* ------------------------------------------------------- general helpers
RECURSIVE Flatten(_)
Flatten(ss) == IF ss = <<>> THEN <<>> ELSE Head(ss) \o Flatten(Tail(ss))

Min(a, b) == IF a <= b THEN a ELSE b

RECURSIVE SumTo(_, _)
SumTo(f, n) == IF n = 0 THEN 0 ELSE f[n] + SumTo(f, n - 1)

(***************************************************************************)
(*                 Wallhaven.get_wallpapers_from_collection                *)
(***************************************************************************)

\* The status codes a response may carry.
Statuses == {200, 404, 429}

\* The remote collections: 1..MaxPages pages of 0..PerPage items each. An
\* empty first page means the collection is empty or does not exist.
Collections ==
    { c \in UNION { [1..n -> 0..PerPage] : n \in 1..MaxPages } :
        c[1] = 0 => Len(c) = 1 }

\* response.json()["data"] of a 200 answer for page p: the items of that page,
\* each named by its page and its place on it; no items past the last page.
PageData(c, p) ==
    IF p \in 1..Len(c) THEN [i \in 1..c[p] |-> <<p, i>>] ELSE <<>>

\* response.json()["meta"]["last_page"]
MetaLastPage(c) == Len(c)

\* main.py:213-217, the status checks after the first request.
FirstStatusError_Swapped(s) ==
    IF s = 404 THEN "RequestLimitError"
    ELSE IF s = 429 THEN "PageNotFoundError" ELSE "none"

FirstStatusError_No429(s) ==
    IF s = 404 THEN "PageNotFoundError" ELSE "none"

FirstStatusError(s) ==
    IF s = 404 THEN "PageNotFoundError"
    ELSE IF s = 429 THEN "RequestLimitError" ELSE "none"

\* main.py:255-258, the status check after a later request. A 404 is not
\* checked there: its body has no "data" key and response.json()["data"] raises.
LoopStatusError(s) ==
    IF s = 429 THEN "RequestLimitError"
    ELSE IF s = 404 THEN "KeyError" ELSE "none"

\* main.py:223, `if not data`
IsEmptyData_Never(data) == FALSE

IsEmptyData(data) == data = <<>>

\* main.py:228, `if limit and len(data) >= limit`
FirstPageSuffices(data, lim) == lim # 0 /\ Len(data) >= lim

\* main.py:229, `data[0:limit]`
FirstSlice_Whole(data, lim) == data

FirstSlice(data, lim) == SubSeq(data, 1, Min(lim, Len(data)))

\* main.py:244, `if not limit and page > meta["last_page"]`
PastLastPage(lim, p, last) == lim = 0 /\ p > last

\* main.py:248, `if len(wallpapers) >= limit`
LimitReached(acc, lim) == Len(acc) >= lim

\* main.py:261-270, the loop over the page's items: append each, and when a
\* limit is set stop as soon as it is reached.
AppendPage_NoBreak(acc, data, lim) == acc \o data

RECURSIVE AppendPage(_, _, _)
AppendPage(acc, data, lim) ==
    IF data = <<>> THEN acc
    ELSE LET acc1 == Append(acc, Head(data))
         IN  IF lim # 0 /\ Len(acc1) >= lim
             THEN acc1
             ELSE AppendPage(acc1, Tail(data), lim)

Raise(e) ==
    /\ pc' = "raised"
    /\ error' = e

\* main.py:208-238: the first request, its checks, and the loop's set-up.
FirstFetch ==
    /\ pc = "start"
    /\ \E s \in Statuses :
         LET data == PageData(coll, 1)
         IN  /\ fetched' = Append(fetched, [page |-> 1, status |-> s])
             /\ IF FirstStatusError(s) # "none"
                THEN /\ Raise(FirstStatusError(s))
                     /\ UNCHANGED <<page, lastPage, wallpapers, result>>
                ELSE IF IsEmptyData(data)
                THEN /\ pc' = "returned"
                     /\ result' = data
                     /\ UNCHANGED <<page, lastPage, wallpapers, error>>
                ELSE IF FirstPageSuffices(data, limit)
                THEN /\ pc' = "returned"
                     /\ result' = FirstSlice(data, limit)
                     /\ UNCHANGED <<page, lastPage, wallpapers, error>>
                ELSE /\ pc' = "loop"
                     /\ lastPage' = MetaLastPage(coll)
                     /\ page' = 2
                     /\ wallpapers' = data
                     /\ UNCHANGED <<result, error>>
    /\ UNCHANGED <<coll, limit>>
    /\ UNCHANGED paramVars

\* main.py:244-245 and 275-276: leave the loop past the last page.
LoopExitLastPage ==
    /\ pc = "loop"
    /\ PastLastPage(limit, page, lastPage)
    /\ pc' = "returned"
    /\ result' = wallpapers
    /\ UNCHANGED <<coll, limit, page, lastPage, wallpapers, error, fetched>>
    /\ UNCHANGED paramVars

\* main.py:248-249 and 275-276: leave the loop with the limit reached.
LoopExitLimit ==
    /\ pc = "loop"
    /\ ~PastLastPage(limit, page, lastPage)
    /\ LimitReached(wallpapers, limit)
    /\ pc' = "returned"
    /\ result' = wallpapers
    /\ UNCHANGED <<coll, limit, page, lastPage, wallpapers, error, fetched>>
    /\ UNCHANGED paramVars

\* main.py:254-273: request the next page, append its items, increment page.
LoopFetch ==
    /\ pc = "loop"
    /\ ~PastLastPage(limit, page, lastPage)
    /\ ~LimitReached(wallpapers, limit)
    /\ page <= MaxRequests
    /\ \E s \in Statuses :
         /\ fetched' = Append(fetched, [page |-> page, status |-> s])
         /\ IF LoopStatusError(s) # "none"
            THEN /\ Raise(LoopStatusError(s))
                 /\ UNCHANGED <<page, wallpapers>>
            ELSE /\ wallpapers' = AppendPage(wallpapers, PageData(coll, page), limit)
                 /\ page' = page + 1
                 /\ UNCHANGED <<pc, error>>
    /\ UNCHANGED <<coll, limit, lastPage, result>>
    /\ UNCHANGED paramVars

(***************************************************************************)
(*                         Parameters and make_query                       *)
(***************************************************************************)

\* ---- Python's string operations, on sequences of characters
UpperChars ==
    <<"A", "B", "C", "D", "E", "F", "G", "H", "I", "J", "K", "L", "M",
      "N", "O", "P", "Q", "R", "S", "T", "U", "V", "W", "X", "Y", "Z">>

LowerChars ==
    <<"a", "b", "c", "d", "e", "f", "g", "h", "i", "j", "k", "l", "m",
      "n", "o", "p", "q", "r", "s", "t", "u", "v", "w", "x", "y", "z">>

\* str.lower(), one character
LowerChar(c) ==
    IF \E i \in 1..Len(UpperChars) : UpperChars[i] = c
    THEN LowerChars[CHOOSE i \in 1..Len(UpperChars) : UpperChars[i] = c]
    ELSE c

\* str.lower()
Lower(w) == [i \in 1..Len(w) |-> LowerChar(w[i])]

\* w[a:b]
Slice(w, a, b) ==
    IF a >= Min(b, Len(w)) THEN <<>> ELSE SubSeq(w, a + 1, Min(b, Len(w)))

\* w[a:]
From(w, a) == IF a >= Len(w) THEN <<>> ELSE SubSeq(w, a + 1, Len(w))

\* str.split(" "): the pieces between single spaces, empty pieces included.
RECURSIVE SplitFrom(_, _)
SplitFrom(s, cur) ==
    IF s = <<>> THEN <<cur>>
    ELSE IF Head(s) = " " THEN <<cur>> \o SplitFrom(Tail(s), <<>>)
    ELSE SplitFrom(Tail(s), Append(cur, Head(s)))

Split(s) == SplitFrom(s, <<>>)

Contains(list, x) == \E i \in 1..Len(list) : list[i] = x

\* ---- the object's state
\* params.py:26-33, the filters a new object holds. A key the dictionary does
\* not hold is kept at the empty value here and left out of fkeys.
NoFilters ==
    [included |-> <<>>, excluded |-> <<>>, id |-> <<>>, like |-> <<>>,
     username |-> <<>>, type |-> <<>>, keyword |-> <<>>]

FilterKeys == {"tags", "id", "like", "username", "type", "keyword"}

\* A Python value whose type matters (set_page takes a str or an int and the
\* two are told apart): its type's name and, for a str, its characters.
PyStr(s) == [t |-> "str", v |-> s]

PyInt(n) == [t |-> "int", v |-> n]

PyNone == [t |-> "NoneType", v |-> 0]

\* params.py:42-50, reset_params
DefaultParams ==
    [categories |-> <<"1", "1", "1">>, purity |-> <<"1", "0", "0">>,
     sorting |-> <<"d", "a", "t", "e", "_", "a", "d", "d", "e", "d">>,
     order |-> <<"d", "e", "s", "c">>, topRange |-> <<"1", "M">>,
     page |-> PyStr(<<"1">>), q |-> <<>>]

\* params.py:21-33, Parameters.__init__
ParamsNew ==
    /\ params = DefaultParams
    /\ filters = NoFilters
    /\ fkeys = FilterKeys
    /\ lastOp = "init"
    /\ lastArg = <<>>
    /\ lastErr = "none"

\* ---- utils/params.py:4-39, make_query
\* utils/params.py:18-21, the two loops over the tag lists
RECURSIVE JoinTags(_, _)
JoinTags(sign, tags) ==
    IF tags = <<>> THEN <<>>
    ELSE <<sign>> \o Head(tags) \o JoinTags(sign, Tail(tags))

\* utils/params.py:23-37, the clauses after the tags
QueryTail(q1, f) ==
    LET q2 == IF f.keyword # <<>> THEN q1 \o f.keyword ELSE q1
        q3 == IF f.username # <<>> THEN q2 \o <<" ", "@">> \o f.username ELSE q2
        q4 == IF f.type # <<>>
              THEN q3 \o <<" ", "t", "y", "p", "e", ":">> \o f.type ELSE q3
        q5 == IF f.like # <<>>
              THEN q4 \o <<" ", "l", "i", "k", "e", ":">> \o f.like ELSE q4
    IN  q5

make_query_IncludedFirst(f) ==
    QueryTail(IF f.id # <<>>
              THEN <<"i", "d", ":">> \o f.id
              ELSE JoinTags("+", f.included) \o JoinTags("-", f.excluded), f)

make_query_TagsAlways(f) ==
    QueryTail((IF f.id # <<>> THEN <<"i", "d", ":">> \o f.id ELSE <<>>)
              \o JoinTags("-", f.excluded) \o JoinTags("+", f.included), f)

make_query(f) ==
    QueryTail(IF f.id # <<>>
              THEN <<"i", "d", ":">> \o f.id
              ELSE JoinTags("-", f.excluded) \o JoinTags("+", f.included), f)

\* The keys make_query reads, in the order it reads them: a key the
\* dictionary does not hold raises KeyError.
MakeQueryRaises(f, keys) ==
    \/ "id" \notin keys
    \/ (f.id = <<>> /\ "tags" \notin keys)
    \/ "keyword" \notin keys
    \/ "username" \notin keys
    \/ "type" \notin keys
    \/ "like" \notin keys

\* ---- params.py:294-321, the body of set_search_query's loop, for one word.
\* st = [f: the filters, k: their keys, err: the exception raised so far]
ProcessWord(st, w) ==
    IF w = <<>> THEN [st EXCEPT !.err = "IndexError"]
    ELSE IF w[1] = "@"
    THEN [st EXCEPT !.f.username = From(w, 1), !.k = @ \cup {"username"}]
    ELSE IF Slice(w, 0, 2) = <<"i", "d">>
    THEN [st EXCEPT !.f.id = From(w, 3), !.k = @ \cup {"id"}]
    ELSE IF Slice(w, 0, 4) = <<"t", "y", "p", "e">>
    THEN [st EXCEPT !.f.type = From(w, 5), !.k = @ \cup {"type"}]
    ELSE IF Slice(w, 0, 4) = <<"l", "i", "k", "e">>
    THEN [st EXCEPT !.f.like = From(w, 5), !.k = @ \cup {"like"}]
    ELSE IF w[1] = "+"
    THEN IF "tags" \notin st.k THEN [st EXCEPT !.err = "KeyError"]
         ELSE [st EXCEPT !.f.included = Append(@, From(Lower(w), 1))]
    ELSE IF w[1] = "-"
    THEN IF "tags" \notin st.k THEN [st EXCEPT !.err = "KeyError"]
         ELSE [st EXCEPT !.f.excluded = Append(@, From(Lower(w), 1))]
    ELSE IF "keyword" \notin st.k THEN [st EXCEPT !.err = "KeyError"]
         ELSE [st EXCEPT !.f.keyword = @ \o w]

\* params.py:294, the loop over the words; an exception ends it.
RECURSIVE ProcessWords(_, _)
ProcessWords(st, words) ==
    IF words = <<>> \/ st.err # "none" THEN st
    ELSE ProcessWords(ProcessWord(st, Head(words)), Tail(words))

AddTags_NoDedup(list, tags) == list \o [i \in 1..Len(tags) |-> Lower(tags[i])]

\* params.py:360-362 and 383-385, the loop over the tags of include_tags and
\* exclude_tags: append the lowercased tag unless the list holds it.
RECURSIVE AddTags(_, _)
AddTags(list, tags) ==
    IF tags = <<>> THEN list
    ELSE IF Contains(list, Lower(Head(tags)))
    THEN AddTags(list, Tail(tags))
    ELSE AddTags(Append(list, Lower(Head(tags))), Tail(tags))

\* ---- the bounds of the object's state and the inputs of its methods
MaxTags == 2      \* tags in one list, at most
MaxKeyword == 3   \* characters of the keyword, at most

InBounds(f) ==
    /\ Len(f.included) <= MaxTags
    /\ Len(f.excluded) <= MaxTags
    /\ Len(f.keyword) <= MaxKeyword

\* The arguments the methods are called with.
Queries ==
    { <<"+", "D", "o", "g">>,
      <<"-", "c", "a", "t">>,
      <<"i", "d", ":", "1">>,
      <<"s", "k", "y">>,
      <<"t", "y", "p", "e", ":", "p", "n", "g", " ", "l", "i", "k", "e", ":", "9">>,
      <<"+", "d", "o", "g", " ", "-", "c", "a", "t", " ", "@", "b", "o", "b">>,
      <<"+", "d", "o", "g", " ">>,
      <<"i", "d", "o", "l">>,
      <<>> }

TagLists ==
    { <<>>,
      << <<"d", "o", "g">> >>,
      << <<"F", "o", "o">>, <<"f", "o", "o">> >> }

Usernames == { <<>>, <<"a", "l">> }

\* What a call leaves behind besides the object's state.
Called(op, arg, err) ==
    /\ lastOp' = op
    /\ lastArg' = arg
    /\ lastErr' = err

\* The end of the methods that serialize: params.py:329, 365, 388, 409,
\* `self.params["q"] = make_query(self.filters)` on the filters f with keys k.
Serialize(op, arg, f, k) ==
    /\ filters' = f
    /\ fkeys' = k
    /\ IF MakeQueryRaises(f, k)
       THEN /\ UNCHANGED params
            /\ Called(op, arg, "KeyError")
       ELSE /\ params' = [params EXCEPT !.q = make_query(f)]
            /\ Called(op, arg, "none")

\* params.py:270-329, Parameters.set_search_query
set_search_query(query) ==
    LET st == ProcessWords([f |-> filters, k |-> fkeys, err |-> "none"],
                           Split(query))
    IN  /\ InBounds(st.f)
        /\ IF st.err # "none"
           THEN /\ filters' = st.f
                /\ fkeys' = st.k
                /\ UNCHANGED params
                /\ Called("set_search_query", query, st.err)
           ELSE Serialize("set_search_query", query, st.f, st.k)
        /\ UNCHANGED fetchVars

clear_search_query_KeepsQuery(clean_filters) ==
    /\ UNCHANGED params
    /\ IF clean_filters
       THEN /\ filters' = NoFilters
            /\ fkeys' = {}
       ELSE /\ filters' = [filters EXCEPT !.keyword = <<>>]
            /\ fkeys' = fkeys \cup {"keyword"}
    /\ Called("clear_search_query", clean_filters, "none")
    /\ UNCHANGED fetchVars

\* params.py:331-342, Parameters.clear_search_query
clear_search_query(clean_filters) ==
    /\ params' = [params EXCEPT !.q = <<>>]
    /\ IF clean_filters
       THEN /\ filters' = NoFilters
            /\ fkeys' = {}
       ELSE /\ filters' = [filters EXCEPT !.keyword = <<>>]
            /\ fkeys' = fkeys \cup {"keyword"}
    /\ Called("clear_search_query", clean_filters, "none")
    /\ UNCHANGED fetchVars

\* params.py:344-365, Parameters.include_tags
include_tags(tags) ==
    /\ IF tags = <<>>
       THEN /\ UNCHANGED <<params, filters, fkeys>>
            /\ Called("include_tags", tags, "ValueError")
       ELSE IF "tags" \notin fkeys
       THEN /\ UNCHANGED <<params, filters, fkeys>>
            /\ Called("include_tags", tags, "KeyError")
       ELSE LET f == [filters EXCEPT !.included = AddTags(@, tags)]
            IN  /\ InBounds(f)
                /\ Serialize("include_tags", tags, f, fkeys)
    /\ UNCHANGED fetchVars

\* params.py:367-388, Parameters.exclude_tags
exclude_tags(tags) ==
    /\ IF tags = <<>>
       THEN /\ UNCHANGED <<params, filters, fkeys>>
            /\ Called("exclude_tags", tags, "ValueError")
       ELSE IF "tags" \notin fkeys
       THEN /\ UNCHANGED <<params, filters, fkeys>>
            /\ Called("exclude_tags", tags, "KeyError")
       ELSE LET f == [filters EXCEPT !.excluded = AddTags(@, tags)]
            IN  /\ InBounds(f)
                /\ Serialize("exclude_tags", tags, f, fkeys)
    /\ UNCHANGED fetchVars

\* params.py:390-409, Parameters.filter_wallpapers_by_user
filter_wallpapers_by_user(username) ==
    /\ IF username = <<>>
       THEN /\ UNCHANGED <<params, filters, fkeys>>
            /\ Called("filter_wallpapers_by_user", username, "ValueError")
       ELSE Serialize("filter_wallpapers_by_user", username,
                      [filters EXCEPT !.username = username],
                      fkeys \cup {"username"})
    /\ UNCHANGED fetchVars

\* ---- the setters of the scalar parameters. They write self.params alone.
\* str.replace(" ", "_")
SpacesToUnderscores(s) == [i \in 1..Len(s) |-> IF s[i] = " " THEN "_" ELSE s[i]]

\* params.py:161 and 205, `x.lower().replace(" ", "_")`
Normalize_LowerOnly(s) == Lower(s)

Normalize(s) == SpacesToUnderscores(Lower(s))

get_str_from_bool_Reversed(values) ==
    [i \in 1..Len(values) |->
        IF values[Len(values) + 1 - i] THEN "1" ELSE "0"]

\* utils/params.py:42-49, "".join(str(int(value)) for value in values)
get_str_from_bool(values) ==
    [i \in 1..Len(values) |-> IF values[i] THEN "1" ELSE "0"]

NoneChosen_Never(values) == FALSE

\* params.py:91 and 121, `not any(values)`
NoneChosen(values) == \A i \in 1..Len(values) : ~values[i]

\* params.py:70-98, Parameters.set_categories. The arguments are booleans, so
\* the type check of lines 86-88 passes.
set_categories(general, anime, people) ==
    LET values == <<general, anime, people>>
    IN  /\ IF NoneChosen(values)
           THEN /\ UNCHANGED params
                /\ Called("set_categories", values, "ValueError")
           ELSE /\ params' = [params EXCEPT
                                 !.categories = get_str_from_bool(values)]
                /\ Called("set_categories", values, "none")
        /\ UNCHANGED <<filters, fkeys>>
        /\ UNCHANGED fetchVars

\* params.py:100-128, Parameters.set_purity
set_purity(sfw, sketchy, nsfw) ==
    LET values == <<sfw, sketchy, nsfw>>
    IN  /\ IF NoneChosen(values)
           THEN /\ UNCHANGED params
                /\ Called("set_purity", values, "ValueError")
           ELSE /\ params' = [params EXCEPT
                                 !.purity = get_str_from_bool(values)]
                /\ Called("set_purity", values, "none")
        /\ UNCHANGED <<filters, fkeys>>
        /\ UNCHANGED fetchVars

toplist_beta == <<"t", "o", "p", "l", "i", "s", "t", "_", "b", "e", "t", "a">>

available_sortings_Seven ==
    { <<"d", "a", "t", "e", "_", "a", "d", "d", "e", "d">>,
      <<"r", "e", "l", "e", "v", "a", "n", "c", "e">>,
      <<"r", "a", "n", "d", "o", "m">>,
      <<"v", "i", "e", "w", "s">>,
      <<"f", "a", "v", "o", "r", "i", "t", "e", "s">>,
      <<"t", "o", "p", "l", "i", "s", "t">>,
      toplist_beta }

\* params.py:150-157, the sortings Parameters.set_sorting knows
available_sortings ==
    { <<"d", "a", "t", "e", "_", "a", "d", "d", "e", "d">>,
      <<"r", "e", "l", "e", "v", "a", "n", "c", "e">>,
      <<"r", "a", "n", "d", "o", "m">>,
      <<"v", "i", "e", "w", "s">>,
      <<"f", "a", "v", "o", "r", "i", "t", "e", "s">>,
      <<"t", "o", "p", "l", "i", "s", "t">> }

\* params.py:130-168, Parameters.set_sorting. The argument is a str.
set_sorting(sorting) ==
    LET normalized == Normalize(sorting)
    IN  /\ IF normalized \notin available_sortings
           THEN /\ UNCHANGED params
                /\ Called("set_sorting", sorting, "ValueError")
           ELSE /\ params' = [params EXCEPT !.sorting = normalized]
                /\ Called("set_sorting", sorting, "none")
        /\ UNCHANGED <<filters, fkeys>>
        /\ UNCHANGED fetchVars

\* params.py:190-198, range_mapping, in the order of the dictionary
range_mapping ==
    << [key |-> <<"l", "a", "s", "t", "_", "d", "a", "y">>,
        value |-> <<"1", "d">>],
       [key |-> <<"l", "a", "s", "t", "_", "t", "h", "r", "e", "e", "_",
                  "d", "a", "y", "s">>,
        value |-> <<"3", "d">>],
       [key |-> <<"l", "a", "s", "t", "_", "w", "e", "e", "k">>,
        value |-> <<"1", "w">>],
       [key |-> <<"l", "a", "s", "t", "_", "m", "o", "n", "t", "h">>,
        value |-> <<"1", "M">>],
       [key |-> <<"l", "a", "s", "t", "_", "t", "h", "r", "e", "e", "_",
                  "m", "o", "n", "t", "h", "s">>,
        value |-> <<"3", "M">>],
       [key |-> <<"l", "a", "s", "t", "_", "s", "i", "x", "_",
                  "w", "e", "e", "k", "s">>,
        value |-> <<"6", "M">>],
       [key |-> <<"l", "a", "s", "t", "_", "y", "e", "a", "r">>,
        value |-> <<"1", "y">>] >>

RECURSIVE MatchRange_CaseSensitive(_, _)
MatchRange_CaseSensitive(top_range, mapping) ==
    IF mapping = <<>> THEN <<>>
    ELSE IF top_range = Head(mapping).key THEN Head(mapping).value
    ELSE IF top_range = Head(mapping).value THEN Head(mapping).value
    ELSE MatchRange_CaseSensitive(top_range, Tail(mapping))

\* params.py:209-217, the loop over range_mapping: the value of the first
\* entry whose key or lowercased value is top_range; <<>> when the loop ends
\* without a break (its else clause raises).
RECURSIVE MatchRange(_, _)
MatchRange(top_range, mapping) ==
    IF mapping = <<>> THEN <<>>
    ELSE IF top_range = Head(mapping).key THEN Head(mapping).value
    ELSE IF top_range = Lower(Head(mapping).value) THEN Head(mapping).value
    ELSE MatchRange(top_range, Tail(mapping))

\* params.py:170-218, Parameters.set_range. The argument is a str.
set_range(top_range) ==
    LET matched == MatchRange(Normalize(top_range), range_mapping)
    IN  /\ IF matched = <<>>
           THEN /\ UNCHANGED params
                /\ Called("set_range", top_range, "ValueError")
           ELSE /\ params' = [params EXCEPT !.topRange = matched]
                /\ Called("set_range", top_range, "none")
        /\ UNCHANGED <<filters, fkeys>>
        /\ UNCHANGED fetchVars

DigitChars == <<"0", "1", "2", "3", "4", "5", "6", "7", "8", "9">>

\* str(n) of an int
RECURSIVE IntToStr(_)
IntToStr(n) ==
    IF n < 0 THEN <<"-">> \o IntToStr(0 - n)
    ELSE IF n < 10 THEN <<DigitChars[n + 1]>>
    ELSE IntToStr(n \div 10) \o <<DigitChars[(n % 10) + 1]>>

\* params.py:263, str(page_number)
Str(x) == IF x.t = "int" THEN IntToStr(x.v) ELSE x.v

\* params.py:264, str.isnumeric() on the characters the inputs are made of
IsNumeric(s) ==
    /\ s # <<>>
    /\ \A i \in 1..Len(s) : \E d \in 1..Len(DigitChars) : DigitChars[d] = s[i]

\* params.py:250-268, Parameters.set_page. Line 268 stores page_number, the
\* argument as it was given, and not `page`, the string made from it.
set_page(page_number) ==
    /\ IF page_number.t \notin {"str", "int"}
       THEN /\ UNCHANGED params
            /\ Called("set_page", page_number, "TypeError")
       ELSE IF ~IsNumeric(Str(page_number))
       THEN /\ UNCHANGED params
            /\ Called("set_page", page_number, "TypeError")
       ELSE /\ params' = [params EXCEPT !.page = page_number]
            /\ Called("set_page", page_number, "none")
    /\ UNCHANGED <<filters, fkeys>>
    /\ UNCHANGED fetchVars

\* main.py:278-307, Wallhaven.search on this Parameters object, by a client
\* whose api_key is a PyStr or PyNone. get_params (params.py:58-62) returns
\* self.params itself, so line 298 writes the key into the object's mapping.
\* The request's answer is status: 429 raises, anything else returns the data.
search(api_key, status) ==
    /\ params' = IF api_key # PyNone
                 THEN ("apikey" :> api_key.v) @@ params
                 ELSE params
    /\ Called("search", api_key,
              IF status = 429 THEN "RequestLimitError" ELSE "none")
    /\ UNCHANGED <<filters, fkeys>>
    /\ UNCHANGED fetchVars

\* The arguments the setters are called with.
Sortings ==
    available_sortings_Seven
    \cup { <<"D", "a", "t", "e", " ", "A", "d", "d", "e", "d">>,
           <<"T", "o", "p", "l", "i", "s", "t">>,
           <<"h", "o", "t">>,
           <<>> }

\* params.py:176-183, the ranges the docstring of set_range names, each in
\* its two written forms
DocumentedRanges ==
    { <<"L", "a", "s", "t", " ", "D", "a", "y">>, <<"1", "d">>,
      <<"L", "a", "s", "t", " ", "T", "h", "r", "e", "e", " ",
        "D", "a", "y", "s">>, <<"3", "d">>,
      <<"L", "a", "s", "t", " ", "W", "e", "e", "k">>, <<"1", "w">>,
      <<"L", "a", "s", "t", " ", "M", "o", "n", "t", "h">>, <<"1", "m">>,
      <<"L", "a", "s", "t", " ", "T", "h", "r", "e", "e", " ",
        "M", "o", "n", "t", "h", "s">>, <<"3", "M">>,
      <<"L", "a", "s", "t", " ", "6", " ", "M", "o", "n", "t", "h", "s">>,
      <<"6", "M">>,
      <<"L", "a", "s", "t", " ", "Y", "e", "a", "r">>, <<"1", "y">> }

Ranges ==
    { <<"L", "a", "s", "t", " ", "M", "o", "n", "t", "h">>,
      <<"1", "M">>,
      <<"1", "m">>,
      <<"3", "D">>,
      <<"l", "a", "s", "t", "_", "s", "i", "x", "_", "w", "e", "e", "k", "s">>,
      <<"L", "a", "s", "t", " ", "6", " ", "M", "o", "n", "t", "h", "s">>,
      <<"m", "o", "n", "t", "h">>,
      <<>> }
    \cup DocumentedRanges

PageNumbers ==
    { PyInt(2), PyInt(12), PyInt(0), PyInt(0 - 1),
      PyStr(<<"2">>), PyStr(<<"0">>), PyStr(<<"x">>), PyStr(<<"1", "a">>),
      PyStr(<<>>), PyNone }

ApiKeys == { PyNone, PyStr(<<"k">>) }

(***************************************************************************)
(*                 Options (src/wallhaven/options.py)                       *)
(***************************************************************************)
\* Python's `s in t` on strings: s occurs in t as a run of characters.
IsSubstring(s, t) ==
    \E i \in 0..(Len(t) - Len(s)) : SubSeq(t, i + 1, i + Len(s)) = s

\* options.py:91, the mapping of Options.set_order
order_mapping ==
    << [key |-> <<"d", "e", "s", "c", "e", "n", "d", "i", "n", "g">>,
        value |-> <<"d", "e", "s", "c">>],
       [key |-> <<"a", "s", "c", "e", "n", "d", "i", "n", "g">>,
        value |-> <<"a", "s", "c">>] >>

\* options.py:76-85 and 94-103, the loop of set_range and set_order: the
\* first entry whose key or whose value holds x as a substring ends it; a
\* match in the key stores the entry's value, a match in the value stores x
\* itself; the loop's else clause raises when no entry matches.
RECURSIVE OptionsMatch(_, _)
OptionsMatch(x, mapping) ==
    IF mapping = <<>> THEN [found |-> FALSE, value |-> x]
    ELSE IF IsSubstring(x, Head(mapping).key)
    THEN [found |-> TRUE, value |-> Head(mapping).value]
    ELSE IF IsSubstring(x, Head(mapping).value)
    THEN [found |-> TRUE, value |-> x]
    ELSE OptionsMatch(x, Tail(mapping))

\* options.py:63-87, Options.set_range. Its range_mapping (options.py:65-73)
\* has the entries of Parameters.set_range's.
Options_set_range(top_range) ==
    LET m == OptionsMatch(Normalize(top_range), range_mapping)
    IN  /\ IF ~m.found
           THEN /\ UNCHANGED params
                /\ Called("Options.set_range", top_range, "InvalidOptionError")
           ELSE /\ params' = [params EXCEPT !.topRange = m.value]
                /\ Called("Options.set_range", top_range, "none")
        /\ UNCHANGED <<filters, fkeys>>
        /\ UNCHANGED fetchVars

\* options.py:89-105, Options.set_order
Options_set_order(order) ==
    LET m == OptionsMatch(Normalize(order), order_mapping)
    IN  /\ IF ~m.found
           THEN /\ UNCHANGED params
                /\ Called("Options.set_order", order, "InvalidOptionError")
           ELSE /\ params' = [params EXCEPT !.order = m.value]
                /\ Called("Options.set_order", order, "none")
        /\ UNCHANGED <<filters, fkeys>>
        /\ UNCHANGED fetchVars

\* options.py:46-61, Options.set_sorting, whose list has toplist_beta too
Options_set_sorting(sorting) ==
    LET normalized == Normalize(sorting)
    IN  /\ IF normalized \notin available_sortings \cup {toplist_beta}
           THEN /\ UNCHANGED params
                /\ Called("Options.set_sorting", sorting, "InvalidOptionError")
           ELSE /\ params' = [params EXCEPT !.sorting = normalized]
                /\ Called("Options.set_sorting", sorting, "none")
        /\ UNCHANGED <<filters, fkeys>>
        /\ UNCHANGED fetchVars

\* options.py:107-113, Options.set_page: `page = str(page)` reads the local
\* `page` before anything is assigned to it, so every call raises.
Options_set_page(page_number) ==
    /\ UNCHANGED params
    /\ Called("Options.set_page", page_number, "UnboundLocalError")
    /\ UNCHANGED <<filters, fkeys>>
    /\ UNCHANGED fetchVars

\* The arguments Options' setters are called with.
OptionRanges ==
    { <<>>,
      <<"l", "a", "s", "t">>,
      <<"1">>,
      <<"3">>,
      <<"1", "M">>,
      <<"1", "d">>,
      <<"L", "a", "s", "t", " ", "M", "o", "n", "t", "h">>,
      <<"L", "a", "s", "t", " ", "Y", "e", "a", "r">>,
      <<"b", "o", "g", "u", "s">> }

Orders ==
    { <<"D", "e", "s", "c", "e", "n", "d", "i", "n", "g">>,
      <<"a", "s", "c">>,
      <<"u", "p">> }

\* -------------------------------------------------------- specifications
FetchInit ==
    /\ coll \in Collections
    /\ limit \in 0..MaxLimit
    /\ pc = "start"
    /\ page = 0
    /\ lastPage = 0
    /\ wallpapers = <<>>
    /\ result = <<>>
    /\ error = "none"
    /\ fetched = <<>>
    /\ ParamsNew

FetchNext == FirstFetch \/ LoopExitLastPage \/ LoopExitLimit \/ LoopFetch

FetchSpec == FetchInit /\ [][FetchNext]_vars

\* A new Parameters object, and no fetch under way.
ParamInit ==
    /\ ParamsNew
    /\ coll = <<0>>
    /\ limit = 0
    /\ pc = "idle"
    /\ page = 0
    /\ lastPage = 0
    /\ wallpapers = <<>>
    /\ result = <<>>
    /\ error = "none"
    /\ fetched = <<>>

ParamNext ==
    \/ \E query \in Queries : set_search_query(query)
    \/ \E clean_filters \in BOOLEAN : clear_search_query(clean_filters)
    \/ \E tags \in TagLists : include_tags(tags)
    \/ \E tags \in TagLists : exclude_tags(tags)
    \/ \E username \in Usernames : filter_wallpapers_by_user(username)

ParamSpec == ParamInit /\ [][ParamNext]_vars

\* The behaviours in which every call returns and the filters are never
\* cleaned: clear_search_query is called with clean_filters=False only.
SuccessNext ==
    \/ \E query \in Queries : set_search_query(query) /\ lastErr' = "none"
    \/ clear_search_query(FALSE)
    \/ \E tags \in TagLists : include_tags(tags) /\ lastErr' = "none"
    \/ \E tags \in TagLists : exclude_tags(tags) /\ lastErr' = "none"
    \/ \E username \in Usernames :
           filter_wallpapers_by_user(username) /\ lastErr' = "none"

SuccessSpec == ParamInit /\ [][SuccessNext]_vars

\* The scalar setters write one key of self.params each and read nothing
\* else of the object, so they are run apart from the query methods: the
\* two flag setters on one object, the other setters and search on another.
FlagNext ==
    \/ \E general, anime, people \in BOOLEAN :
           set_categories(general, anime, people)
    \/ \E sfw, sketchy, nsfw \in BOOLEAN : set_purity(sfw, sketchy, nsfw)

FlagSpec == ParamInit /\ [][FlagNext]_vars

SettingNext ==
    \/ \E sorting \in Sortings : set_sorting(sorting)
    \/ \E top_range \in Ranges : set_range(top_range)
    \/ \E page_number \in PageNumbers : set_page(page_number)
    \/ \E api_key \in ApiKeys, status \in Statuses : search(api_key, status)

SettingSpec == ParamInit /\ [][SettingNext]_vars

\* A new Options object: defaultParameters (options.py:10-19) builds the
\* mapping reset_params builds; the object has no filters.
OptionsInit == ParamInit

OptionsNext ==
    \/ \E top_range \in OptionRanges : Options_set_range(top_range)
    \/ \E order \in Orders : Options_set_order(order)
    \/ \E sorting \in Sortings : Options_set_sorting(sorting)
    \/ \E page_number \in PageNumbers : Options_set_page(page_number)

OptionsSpec == OptionsInit /\ [][OptionsNext]_vars

\* ------------------------------------------------- the fetcher's claims
\* What the claims speak of, read off the remote collection and the requests.
FetchedPages == [i \in 1..Len(fetched) |-> fetched[i].page]

UpTo(n) == [i \in 1..n |-> i]

AllItems(c) == Flatten([p \in 1..Len(c) |-> PageData(c, p)])

Total(c) == SumTo(c, Len(c))

\* The first page at which the accumulated count reaches lim.
FirstPageReaching(c, lim) ==
    CHOOSE k \in 1..Len(c) :
        /\ SumTo(c, k) >= lim
        /\ \A j \in 1..(k - 1) : SumTo(c, j) < lim

IsPrefix(s, t) == Len(s) <= Len(t) /\ s = SubSeq(t, 1, Len(s))

\* C1: with limit = 0 and a non-empty page 1 whose metadata says
\* last_page = N, a call that returns has requested exactly the pages 1..N,
\* each once and in increasing order, and returns the items of all N pages
\* in page order.
C1_NoLimitFetchesAllPages ==
    (pc = "returned" /\ limit = 0 /\ coll[1] > 0)
        => /\ FetchedPages = UpTo(MetaLastPage(coll))
           /\ result = AllItems(coll)

\* C2: with a nonzero limit L, fewer than L items on page 1 and at least L
\* items in the collection, the pages requested are always 1, 2, ... in order
\* and never past k, the first page at which the count reaches L; a call that
\* returns has requested exactly 1..k and returns exactly the first L items
\* of the pages' concatenation.
C2_LimitAcrossPages ==
    (limit # 0 /\ coll[1] < limit /\ Total(coll) >= limit)
        => LET k == FirstPageReaching(coll, limit)
           IN  /\ IsPrefix(FetchedPages, UpTo(k))
               /\ pc = "returned"
                    => /\ FetchedPages = UpTo(k)
                       /\ result = SubSeq(AllItems(coll), 1, limit)

\* C2's case: a call returned after three requests, the third page cut
\* mid-page by the limit.
C2_Witness ==
    /\ pc = "returned"
    /\ limit # 0 /\ coll[1] < limit /\ Total(coll) >= limit
    /\ Len(fetched) = 3
    /\ SumTo(coll, 3) > limit
    /\ Len(result) = limit

\* C3: the call terminates, stopping when the limit or the last page is
\* reached: once the loop is past the last page (every further page is
\* empty, so nothing the loop reads can change), one of its two exits is open.
C3_StopsAtLastPage ==
    (pc = "loop" /\ page > lastPage)
        => PastLastPage(limit, page, lastPage) \/ LimitReached(wallpapers, limit)

\* C4: with a nonzero limit L and at least L items on page 1, exactly one
\* request is ever issued, and a call whose request succeeded returns exactly
\* the first L items of page 1.
C4_FirstPageSuffices ==
    (pc # "start" /\ limit # 0 /\ coll[1] >= limit)
        => /\ FetchedPages = <<1>>
           /\ fetched[1].status = 200
                => /\ pc = "returned"
                   /\ result = SubSeq(PageData(coll, 1), 1, limit)

\* C4's case: the call returned and page 1 held more than L items.
C4_Witness ==
    /\ pc = "returned"
    /\ limit # 0 /\ coll[1] > limit
    /\ Len(result) = limit

\* C5: a request answered 429, the first or a later one, is the last request
\* of the call, which fails with the rate-limit error and returns nothing.
C5_RateLimitAborts ==
    \A i \in 1..Len(fetched) :
        fetched[i].status = 429
            => /\ i = Len(fetched)
               /\ pc = "raised"
               /\ error = "RequestLimitError"
               /\ result = <<>>

\* C5's case: a later request was answered 429 with items already accumulated.
C5_Witness ==
    /\ pc = "raised"
    /\ Len(fetched) >= 2
    /\ fetched[Len(fetched)].status = 429
    /\ wallpapers # <<>>

\* C6: a first request answered 404 is the only request of the call, which
\* fails with the not-found error and returns nothing.
C6_NotFoundAborts ==
    (fetched # <<>> /\ fetched[1].status = 404)
        => /\ Len(fetched) = 1
           /\ pc = "raised"
           /\ error = "PageNotFoundError"
           /\ result = <<>>

\* C6's case: the first request was answered 404.
C6_Witness ==
    /\ pc = "raised"
    /\ fetched # <<>>
    /\ fetched[1].status = 404

\* C7: when page 1 is fetched successfully and holds no items, the call
\* returns the empty list, raises nothing and issues no other request,
\* whatever the limit.
C7_EmptyFirstPage ==
    (fetched # <<>> /\ fetched[1].status = 200 /\ PageData(coll, 1) = <<>>)
        => /\ Len(fetched) = 1
           /\ pc = "returned"
           /\ error = "none"
           /\ result = <<>>

\* C7's case: page 1 was empty and a limit was set.
C7_Witness ==
    /\ pc = "returned"
    /\ fetched # <<>>
    /\ PageData(coll, 1) = <<>>
    /\ limit > 0

\* --------------------------------------------- the query builder's claims
\* The methods that end by serializing the filters into q.
Serializers ==
    {"set_search_query", "include_tags", "exclude_tags",
     "filter_wallpapers_by_user"}

Serialized == lastOp \in Serializers /\ lastErr = "none"

\* The filters a query yields when parsed alone, on a new object.
ParsedAlone(query) ==
    ProcessWords([f |-> NoFilters, k |-> FilterKeys, err |-> "none"],
                 Split(query)).f

\* C8: after set_search_query(query) has returned, the included and excluded
\* tags and the id, username, type, like and keyword filters are exactly those
\* parsed from this query alone: nothing stored before the call survives.
C8_SetSearchQueryReplaces ==
    (lastOp = "set_search_query" /\ lastErr = "none")
        => filters = ParsedAlone(lastArg)

\* The clauses of the query grammar, each written out on its own.
Clause(prefix, value) == IF value = <<>> THEN <<>> ELSE prefix \o value

TagClauses(sign, tags) == Flatten([i \in 1..Len(tags) |-> <<sign>> \o tags[i]])

TagPart(f) ==
    IF f.id # <<>>
    THEN <<"i", "d", ":">> \o f.id
    ELSE TagClauses("-", f.excluded) \o TagClauses("+", f.included)

ExpectedQuery(f) ==
    Flatten(<< TagPart(f),
               f.keyword,
               Clause(<<" ", "@">>, f.username),
               Clause(<<" ", "t", "y", "p", "e", ":">>, f.type),
               Clause(<<" ", "l", "i", "k", "e", ":">>, f.like) >>)

DogCatBob ==
    [NoFilters EXCEPT !.included = << <<"d", "o", "g">> >>,
                      !.excluded = << <<"c", "a", "t">> >>,
                      !.username = <<"b", "o", "b">>]

\* C9: for every filter state make_query yields the tag part ('id:<id>', or
\* every excluded tag as '-<tag>' then every included tag as '+<tag>', in
\* insertion order), then the keyword, then ' @<username>', ' type:<type>'
\* and ' like:<id>' for those that are set, and that is the q a serializing
\* method stores; included=[dog], excluded=[cat], username=bob gives
\* '-cat+dog @bob'.
C9_QueryClauseOrder ==
    /\ ~MakeQueryRaises(filters, fkeys)
         => make_query(filters) = ExpectedQuery(filters)
    /\ Serialized => params.q = ExpectedQuery(filters)
    /\ (Serialized /\ filters = DogCatBob)
         => params.q = <<"-", "c", "a", "t", "+", "d", "o", "g",
                         " ", "@", "b", "o", "b">>

\* C9's case: a method serialized included=[dog], excluded=[cat], username=bob.
C9_Witness ==
    /\ Serialized
    /\ filters = DogCatBob
    /\ params.q # <<>>

\* C10: whenever the id filter is set, make_query yields a query that begins
\* with 'id:<id>' and is the one it yields with both tag lists empty, whatever
\* the lists hold; and that is the q stored by a later include_tags or
\* exclude_tags call.
C10_IdSuppressesTags ==
    (filters.id # <<>> /\ ~MakeQueryRaises(filters, fkeys))
        => LET q == make_query(filters)
           IN  /\ IsPrefix(<<"i", "d", ":">> \o filters.id, q)
               /\ q = make_query([filters EXCEPT !.included = <<>>,
                                                 !.excluded = <<>>])
               /\ (lastOp \in {"include_tags", "exclude_tags"}
                   /\ lastErr = "none") => params.q = q

\* C10's case: include_tags returned on an object whose id filter is set and
\* whose tag lists both hold tags.
C10_Witness ==
    /\ lastOp = "include_tags"
    /\ lastErr = "none"
    /\ filters.id # <<>>
    /\ filters.included # <<>>
    /\ filters.excluded # <<>>

\* ------------------------------------------------- the setters' claims
Setters ==
    {"set_categories", "set_purity", "set_sorting", "set_range", "set_page",
     "set_search_query", "include_tags", "exclude_tags",
     "filter_wallpapers_by_user"}

\* C11: a setter call that raises leaves the params mapping and the filters
\* (their values and their keys) exactly as they were before the call, also
\* when set_search_query raises on a later token of its query.
C11_FailedCallChangesNothing ==
    [][(lastOp' \in Setters /\ lastErr' # "none")
          => /\ params' = params
             /\ filters' = filters
             /\ fkeys' = fkeys]_vars

\* The other keys of the params mapping keep their values.
OnlyChanges(key) ==
    /\ DOMAIN params' = DOMAIN params
    /\ \A k \in DOMAIN params \ {key} : params'[k] = params[k]

\* The 3-character string of a triple: '1' at i exactly when flags[i] holds.
IsFlagString(s, flags) ==
    /\ Len(s) = 3
    /\ \A i \in 1..3 : (flags[i] => s[i] = "1") /\ (~flags[i] => s[i] = "0")

\* C12: for every triple of booleans with at least one true,
\* set_categories(general, anime, people) returns and stores in
\* params['categories'], and set_purity(sfw, sketchy, nsfw) in
\* params['purity'], the 3-character string whose i-th character is '1'
\* exactly when the i-th argument is true; no other parameter changes.
C12_FlagStrings ==
    [][/\ (lastOp' = "set_categories" /\ \E i \in 1..3 : lastArg'[i])
            => /\ lastErr' = "none"
               /\ IsFlagString(params'.categories, lastArg')
               /\ OnlyChanges("categories")
       /\ (lastOp' = "set_purity" /\ \E i \in 1..3 : lastArg'[i])
            => /\ lastErr' = "none"
               /\ IsFlagString(params'.purity, lastArg')
               /\ OnlyChanges("purity")]_vars

\* C12's case: set_purity(False, True, True) returned on an object whose
\* categories an earlier set_categories(True, False, True) had set.
C12_Witness ==
    /\ lastOp = "set_purity"
    /\ lastArg = <<FALSE, TRUE, TRUE>>
    /\ lastErr = "none"
    /\ params.purity = <<"0", "1", "1">>
    /\ params.categories = <<"1", "0", "1">>

HasOne(s) == \E i \in 1..Len(s) : s[i] = "1"

\* C13: set_categories(False, False, False) and set_purity(False, False,
\* False) raise the setter's validation error (ValueError in Parameters) and
\* leave the params mapping and the filters as they were; and in every
\* reachable state params['categories'] and params['purity'] each hold at
\* least one '1'.
C13_AtLeastOneFlag ==
    /\ [](HasOne(params.categories) /\ HasOne(params.purity))
    /\ [][(lastOp' \in {"set_categories", "set_purity"}
           /\ lastArg' = <<FALSE, FALSE, FALSE>>)
             => /\ lastErr' = "ValueError"
                /\ params' = params
                /\ filters' = filters
                /\ fkeys' = fkeys]_vars

\* C13's case: set_categories(False, False, False) was refused on an object
\* whose categories and purity earlier calls had changed.
C13_Witness ==
    /\ lastOp = "set_categories"
    /\ lastArg = <<FALSE, FALSE, FALSE>>
    /\ lastErr = "ValueError"
    /\ params.categories = <<"0", "1", "0">>
    /\ params.purity = <<"0", "0", "1">>

\* The normal form the claims speak of: lowercase, spaces to underscores.
Canon(s) == [i \in 1..Len(s) |-> IF s[i] = " " THEN "_" ELSE LowerChar(s[i])]

date_added == <<"d", "a", "t", "e", "_", "a", "d", "d", "e", "d">>

SixSortings ==
    { date_added,
      <<"r", "e", "l", "e", "v", "a", "n", "c", "e">>,
      <<"r", "a", "n", "d", "o", "m">>,
      <<"v", "i", "e", "w", "s">>,
      <<"f", "a", "v", "o", "r", "i", "t", "e", "s">>,
      <<"t", "o", "p", "l", "i", "s", "t">> }

\* A set_sorting step accepts exactly the inputs whose normal form is one of
\* values and stores that normal form; it refuses every other input and
\* leaves the params mapping as it was.
SortingRule(values) ==
    lastOp' = "set_sorting"
        => IF Canon(lastArg') \in values
           THEN /\ lastErr' = "none"
                /\ params'.sorting = Canon(lastArg')
                /\ OnlyChanges("sorting")
           ELSE /\ lastErr' # "none"
                /\ params' = params

\* C14, as claimed: set_sorting accepts, after normalization, each of the
\* seven values date_added, relevance, random, views, favorites, toplist and
\* toplist_beta, and stores the normalized value; every other input fails
\* and leaves params['sorting'] unchanged.
C14_SevenSortings == [][SortingRule(SixSortings \cup {toplist_beta})]_vars

\* C14, amended: Parameters.set_sorting accepts, after normalization, each
\* of the six values date_added, relevance, random, views, favorites and
\* toplist and stores the normalized value ('Date Added' and 'date_added'
\* both store 'date_added'); every other input, toplist_beta included, fails
\* and leaves params['sorting'] unchanged.
C14_SixSortings ==
    [][/\ SortingRule(SixSortings)
       /\ (lastOp' = "set_sorting"
           /\ lastArg' \in {date_added,
                            <<"D", "a", "t", "e", " ", "A", "d", "d", "e", "d">>})
            => params'.sorting = date_added
       /\ (lastOp' = "set_sorting" /\ lastArg' = toplist_beta)
            => lastErr' = "ValueError"]_vars

\* C14's case: set_sorting('Date Added') returned and stored 'date_added' on
\* an object whose range and page other setters had changed.
C14_Witness ==
    /\ lastOp = "set_sorting"
    /\ lastArg = <<"D", "a", "t", "e", " ", "A", "d", "d", "e", "d">>
    /\ lastErr = "none"
    /\ params.sorting = date_added
    /\ params.topRange # DefaultParams.topRange
    /\ params.page # DefaultParams.page

Abbreviations ==
    { <<"1", "d">>, <<"3", "d">>, <<"1", "w">>, <<"1", "M">>, <<"3", "M">>,
      <<"6", "M">>, <<"1", "y">> }

\* The entries of the range table that an input in normal form n names: by
\* its key, or by its abbreviated value with case ignored (n is in lowercase,
\* so it is compared with the value in lowercase).
LoweredValues ==
    [i \in 1..Len(range_mapping) |-> Lower(range_mapping[i].value)]

RangeHits(n) ==
    { i \in 1..Len(range_mapping) :
        \/ n = range_mapping[i].key
        \/ n = LoweredValues[i] }

\* C15: set_range accepts an input exactly when its normal form equals a key
\* of the range table or, ignoring case, an abbreviated value, and then
\* stores that entry's abbreviation, one of 1d, 3d, 1w, 1M, 3M, 6M, 1y
\* ('Last Month' and '1M' both store '1M'); every other input fails and
\* leaves params['topRange'] unchanged.
C15_RangeAccepted ==
    [][lastOp' = "set_range"
         => \A n \in {Canon(lastArg')} : \A hits \in {RangeHits(n)} :
                /\ IF hits # {}
                   THEN /\ lastErr' = "none"
                        /\ \E i \in hits :
                               params'.topRange = range_mapping[i].value
                        /\ params'.topRange \in Abbreviations
                        /\ OnlyChanges("topRange")
                   ELSE /\ lastErr' # "none"
                        /\ params' = params
                /\ lastArg' \in {<<"1", "M">>,
                                 <<"L", "a", "s", "t", " ",
                                   "M", "o", "n", "t", "h">>}
                     => params'.topRange = <<"1", "M">>]_vars

\* C15's case: set_range('3D'), an abbreviation in another case, returned
\* and stored the canonical '3d'.
C15_Witness ==
    /\ lastOp = "set_range"
    /\ lastArg = <<"3", "D">>
    /\ lastErr = "none"
    /\ params.topRange = <<"3", "d">>

TagOps == {"include_tags", "exclude_tags"}

\* The list a tag method writes, and the filters it does not write.
TagList(f, op) == IF op = "include_tags" THEN f.included ELSE f.excluded

OtherFiltersKept(op) ==
    /\ fkeys' = fkeys
    /\ \A k \in DOMAIN filters \ {IF op = "include_tags" THEN "included"
                                  ELSE "excluded"} : filters'[k] = filters[k]

FirstIndex(list, x) == CHOOSE i \in 1..Len(list) :
    list[i] = x /\ \A j \in 1..(i - 1) : list[j] # x

\* new is old with the lowercased tags added at its end: those old did not
\* hold, each once, in the order in which the call names them first.
TagsAdded(old, new, tags) ==
    LET lowered == [i \in 1..Len(tags) |-> Lower(tags[i])]
        added == SubSeq(new, Len(old) + 1, Len(new))
    IN  /\ IsPrefix(old, new)
        /\ \A i \in 1..Len(lowered) : Contains(new, lowered[i])
        /\ \A a \in 1..Len(added) :
               /\ ~Contains(old, added[a])
               /\ Contains(lowered, added[a])
        /\ \A a, b \in 1..Len(added) :
               a < b => /\ added[a] # added[b]
                        /\ FirstIndex(lowered, added[a])
                             < FirstIndex(lowered, added[b])

\* C16: include_tags and exclude_tags add to their list and do not replace
\* it: a call that returns leaves the old list as a prefix and appends each
\* lowercased tag the list did not hold, once, in first-insertion order
\* (include_tags(['Foo', 'foo']) adds the one tag 'foo'), and touches no
\* other filter; repeating a call that returned changes neither the filters
\* nor q; an empty list raises ValueError and changes nothing.
C16_TagsAccumulate ==
    /\ []((lastOp \in TagOps /\ lastErr = "none")
            => /\ AddTags(TagList(filters, lastOp), lastArg)
                    = TagList(filters, lastOp)
               /\ ~MakeQueryRaises(filters, fkeys)
               /\ make_query(filters) = params.q)
    /\ [][lastOp' \in TagOps
            => /\ lastArg' = <<>>
                    => /\ lastErr' = "ValueError"
                       /\ params' = params
                       /\ filters' = filters
                       /\ fkeys' = fkeys
               /\ lastErr' = "none"
                    => /\ TagsAdded(TagList(filters, lastOp'),
                                    TagList(filters', lastOp'), lastArg')
                       /\ OtherFiltersKept(lastOp')
                       /\ OnlyChanges("q")]_vars

\* C16's case: include_tags(['Foo', 'foo']) returned on an object that held
\* the tag 'dog', and the list is now 'dog', 'foo'.
C16_Witness ==
    /\ lastOp = "include_tags"
    /\ lastArg = << <<"F", "o", "o">>, <<"f", "o", "o">> >>
    /\ lastErr = "none"
    /\ filters.included = << <<"d", "o", "g">>, <<"f", "o", "o">> >>

\* A string made only of decimal digits, and one that denotes a positive
\* integer.
AllDigits(s) ==
    /\ Len(s) > 0
    /\ \A i \in 1..Len(s) :
           s[i] \in {"0", "1", "2", "3", "4", "5", "6", "7", "8", "9"}

PositiveDigits(s) == AllDigits(s) /\ \E i \in 1..Len(s) : s[i] # "0"

\* C17: in every reachable state params['page'] is a str made only of
\* decimal digits that denotes a positive integer; set_page(n) with an int
\* or a digit string n returns and stores the decimal string of n, and
\* set_page raises, leaving the page as it was, for every input whose string
\* form is not all decimal digits.
C17_PageIsDigitString ==
    /\ [](/\ params.page.t = "str"
          /\ PositiveDigits(params.page.v)
          /\ lastOp = "set_page"
               => IF lastArg.t \in {"str", "int"} /\ AllDigits(Str(lastArg))
                  THEN /\ lastErr = "none"
                       /\ params.page = PyStr(Str(lastArg))
                  ELSE lastErr # "none")
    /\ [][(lastOp' = "set_page" /\ lastErr' # "none")
            => params'.page = params.page]_vars

\* C18: after clear_search_query(clean_filters=True) q is empty and the
\* filters are those of a new Parameters object, every key present with its
\* empty value; so no later include_tags, exclude_tags,
\* filter_wallpapers_by_user or set_search_query call fails for want of a
\* filter (KeyError).
C18_ClearRestoresFresh ==
    /\ (lastOp = "clear_search_query" /\ lastArg = TRUE)
         => /\ params.q = <<>>
            /\ filters = NoFilters
            /\ fkeys = FilterKeys
    /\ lastOp \in Serializers => lastErr # "KeyError"

ParamKeys ==
    {"categories", "purity", "sorting", "order", "topRange", "page", "q"}

\* C19: in every reachable state, also after the Parameters object has been
\* passed to Wallhaven.search by a client that holds an API key, the mapping
\* get_params() returns has exactly the seven keys categories, purity,
\* sorting, order, topRange, page and q; and search leaves the object it was
\* given as it was.
C19_SevenKeysKept ==
    /\ [](DOMAIN params = ParamKeys)
    /\ [][lastOp' = "search"
            => /\ params' = params
               /\ filters' = filters
               /\ fkeys' = fkeys]_vars

\* The classification the claim states, for one token: by its exact prefix.
ExactWord(f, w) ==
    IF w[1] = "@" THEN [f EXCEPT !.username = From(w, 1)]
    ELSE IF Slice(w, 0, 3) = <<"i", "d", ":">>
    THEN [f EXCEPT !.id = From(w, 3)]
    ELSE IF Slice(w, 0, 5) = <<"t", "y", "p", "e", ":">>
    THEN [f EXCEPT !.type = From(w, 5)]
    ELSE IF Slice(w, 0, 5) = <<"l", "i", "k", "e", ":">>
    THEN [f EXCEPT !.like = From(w, 5)]
    ELSE IF w[1] = "+"
    THEN [f EXCEPT !.included = Append(@, Lower(From(w, 1)))]
    ELSE IF w[1] = "-"
    THEN [f EXCEPT !.excluded = Append(@, Lower(From(w, 1)))]
    ELSE [f EXCEPT !.keyword = @ \o w]

RECURSIVE ExactWords(_, _)
ExactWords(f, words) ==
    IF words = <<>> THEN f
    ELSE ExactWords(ExactWord(f, Head(words)), Tail(words))

\* C20: set_search_query classifies each token by its exact prefix: 'id:',
\* 'type:' and 'like:' set the id, type and like filters, '@' the username,
\* '-' and '+' add the lowercased remainder to excluded and included; a token
\* that only starts with the letters 'id', 'type' or 'like', without the
\* colon, is not stored as an id, type or like filter (it is a keyword).
C20_ExactPrefixes ==
    [][(lastOp' = "set_search_query" /\ lastErr' = "none")
         => filters' = ExactWords(filters, Split(lastArg'))]_vars

\* ------------------------------------------------- the last claims
\* C21: in every reachable state of Options params['topRange'] is one of
\* 1d, 3d, 1w, 1M, 3M, 6M, 1y: Options.set_range either stores one of them
\* or raises InvalidOptionError, for every input string (the empty string,
\* 'last', '1' and '3' too); and it accepts the abbreviated form '1M'.
C21_OptionsRangeIsCanonical ==
    /\ params.topRange \in Abbreviations
    /\ lastOp = "Options.set_range"
         => /\ lastErr \in {"none", "InvalidOptionError"}
            /\ lastArg = <<"1", "M">>
                 => (lastErr = "none" /\ params.topRange = <<"1", "M">>)

\* The docstring's list: each range's two written forms and its abbreviation.
Documented ==
    { [long |-> <<"L", "a", "s", "t", " ", "D", "a", "y">>,
       short |-> <<"1", "d">>, stored |-> <<"1", "d">>],
      [long |-> <<"L", "a", "s", "t", " ", "T", "h", "r", "e", "e", " ",
                  "D", "a", "y", "s">>,
       short |-> <<"3", "d">>, stored |-> <<"3", "d">>],
      [long |-> <<"L", "a", "s", "t", " ", "W", "e", "e", "k">>,
       short |-> <<"1", "w">>, stored |-> <<"1", "w">>],
      [long |-> <<"L", "a", "s", "t", " ", "M", "o", "n", "t", "h">>,
       short |-> <<"1", "m">>, stored |-> <<"1", "M">>],
      [long |-> <<"L", "a", "s", "t", " ", "T", "h", "r", "e", "e", " ",
                  "M", "o", "n", "t", "h", "s">>,
       short |-> <<"3", "M">>, stored |-> <<"3", "M">>],
      [long |-> <<"L", "a", "s", "t", " ", "6", " ",
                  "M", "o", "n", "t", "h", "s">>,
       short |-> <<"6", "M">>, stored |-> <<"6", "M">>],
      [long |-> <<"L", "a", "s", "t", " ", "Y", "e", "a", "r">>,
       short |-> <<"1", "y">>, stored |-> <<"1", "y">>] }

\* C22: every range the docstring of Parameters.set_range names is accepted
\* in both its written forms and stores the listed abbreviation: 'Last Day'
\* or '1d' stores 1d, ..., 'Last 6 Months' or '6M' stores 6M, 'Last Year' or
\* '1y' stores 1y.
C22_DocumentedRangesAccepted ==
    lastOp = "set_range"
        => \A d \in Documented :
               lastArg \in {d.long, d.short}
                   => (lastErr = "none" /\ params.topRange = d.stored)

\* A list that is a set of lowercase strings: every tag is its own lowercase
\* and no tag occurs twice.
IsLowercaseSet(list) ==
    /\ \A i \in 1..Len(list) : list[i] = Lower(list[i])
    /\ \A i, j \in 1..Len(list) : i # j => list[i] # list[j]

\* C23: in every reachable state, after any sequence of set_search_query,
\* include_tags and exclude_tags calls, the included and the excluded list
\* are sets of lowercase strings: every tag is lowercase and none occurs
\* twice in its list.
C23_TagListsAreSets ==
    /\ IsLowercaseSet(filters.included)
    /\ IsLowercaseSet(filters.excluded)

\* C24, as claimed: after any sequence of calls that returned, of
\* set_search_query, include_tags, exclude_tags, filter_wallpapers_by_user
\* and clear_search_query(clean_filters=False), params['q'] is make_query of
\* the current filters (so a tag that has left q is in no filter that a later
\* call could serialize again).
C24_QueryMatchesFilters == params.q = make_query(filters)

\* C24, amended: after each returned set_search_query, include_tags,
\* exclude_tags or filter_wallpapers_by_user call q is make_query of the
\* current filters; clear_search_query(clean_filters=False) sets q to ''
\* and empties the keyword while it keeps the tag lists and the id, like,
\* username and type filters, so q then differs from make_query of the
\* filters exactly when make_query of them is not empty.
C24_QueryMatchesAfterSerializing ==
    /\ [](/\ Serialized => params.q = make_query(filters)
          /\ lastOp = "clear_search_query"
               => /\ params.q = <<>>
                  /\ filters.keyword = <<>>
                  /\ (params.q # make_query(filters))
                       <=> (make_query(filters) # <<>>))
    /\ [][(lastOp' = "clear_search_query" /\ lastArg' = FALSE)
            => \A k \in DOMAIN filters \ {"keyword"} :
                   filters'[k] = filters[k]]_vars

\* C24's case: clear_search_query(False) returned on an object that holds an
\* included tag, and q is empty while the tag is kept.
C24_Witness ==
    /\ lastOp = "clear_search_query"
    /\ lastArg = FALSE
    /\ filters.included # <<>>
    /\ params.q = <<>>

\* C25: set_search_query returns for every string query: the empty pieces
\* that the empty query and leading, trailing or doubled spaces leave are
\* not tokens, so no call ends in the IndexError of reading the first
\* character of an empty token, and a call that returns has set q to the
\* serialization of the filters.
C25_EmptyTokensSkipped ==
    lastOp = "set_search_query"
        => /\ lastErr # "IndexError"
           /\ lastErr = "none" => params.q = make_query(filters)

====
